---- MODULE Spec2Model ----
(***************************************************************************)
(* Model of the polling / archival engine of archiverWIN7.py:              *)
(* PollingEngine._run and its three steps (_process_folder_a,              *)
(* _process_folder_b with _archive_file, _process_folder_d), the Database  *)
(* insert / update_cnc_data operations, and the folders A, B, C, D as the  *)
(* engine sees them.  Time is counted in whole seconds.                    *)
(***************************************************************************)
EXTENDS Integers, Sequences, FiniteSets, TLC

(* ---------------- bounds of the model ---------------- *)

\* number of iterations of the polling loop that are explored
MaxTicks == 3
\* largest file size (bytes, abstract) an intake file can grow to
MaxSize == 2
\* largest modification time a report file can carry
MaxMtime == 2
\* largest number of rows of the table when the Database methods are
\* explored on their own
MaxRows == 3
\* largest number of calls of start() after the first one
MaxStarts == 1
\* largest numbers of characters on the two sides of the hyphen in the
\* texts _parse_material is explored with
MaxLeft == 51
MaxRight == 21
MaxLines == 2

(* ---------------- program constants ---------------- *)

ARCHIVE_DELAY == 7 * 60
POLL_INTERVAL == 2

(* ---------------- names and sentinels ---------------- *)

\* a value that stands for Python's None in time-valued fields
None == -1
\* directory entry states of a path: no entry, a directory, or a regular
\* file of the given size
NoFile == -1
DirEntry == -2
\* "Brak", the default of the metadata columns
Brak == "Brak"
\* czas_cyklu_ab = None
NoCycle == << >>

\* file names of folder A / B / C, as stem and extension
IntakeNames ==
    { [stem |-> "j1", ext |-> "iso"],
      [stem |-> "j2", ext |-> "ISO"] }

\* file names of folder D: optional '#', a token, and what follows it
ReportNames ==
    { [hash |-> TRUE,  stem |-> "j1",    suffix |-> "iso.txt"],
      [hash |-> TRUE,  stem |-> "j2",    suffix |-> "ISO.TXT"] }

\* time from the start of one explored cycle to the start of the next: the
\* dwell threshold, or one polling interval less
TickSteps == { ARCHIVE_DELAY - POLL_INTERVAL, ARCHIVE_DELAY }

(* ---------------- pure helpers ---------------- *)

\* str.lower() on the extensions and suffixes that occur
Lower(s) ==
    CASE s = "ISO" -> "iso"
      [] s = "ISO.TXT" -> "iso.txt"
      [] s = "TXT" -> "txt"
      [] OTHER -> s

\* the last dot-separated component of a report suffix
LastExt(s) ==
    CASE Lower(s) = "iso.txt" -> "txt"
      [] OTHER -> Lower(s)

ISO_PATTERN(name) == Lower(name.ext) = "iso"

TXT_PATTERN(report) == LastExt(report.suffix) = "txt"

\* ISO_EXTRACT_PATTERN.search(filename): TRUE when '#<token>.iso.txt' ends
\* the name
ISO_EXTRACT_PATTERN(report) ==
    report.hash /\ report.stem # "" /\ Lower(report.suffix) = "iso.txt"

\* match.group(1) + ".iso"
iso_name(report) == [stem |-> report.stem, ext |-> "iso"]

IsRegular(entry) == entry >= 0

\* format_timedelta: the three fields of HH:MM:SS
format_timedelta(td) ==
    LET total_seconds == td
        hours == total_seconds \div 3600
        minutes == (total_seconds % 3600) \div 60
        seconds == total_seconds % 60
    IN  << hours, minutes, seconds >>

\* all orders in which a directory listing can return the set S
RECURSIVE Listings(_)
Listings(S) ==
    IF S = {} THEN { << >> }
    ELSE UNION { { << x >> \o l : l \in Listings(S \ {x}) } : x \in S }

Range(s) == { s[i] : i \in 1..Len(s) }

(* ---------------- the dict self.waiting ---------------- *)

\* self.waiting is a sequence of entries in insertion order
WaitingKeys(w) == [ i \in 1..Len(w) |-> w[i].name ]

InWaiting(w, f) == \E i \in 1..Len(w) : w[i].name = f

WaitingEntry(w, f) == w[CHOOSE i \in 1..Len(w) : w[i].name = f]

\* self.waiting[f] = (path, t)
WaitingPut(w, f, t) ==
    IF InWaiting(w, f)
    THEN [ i \in 1..Len(w) |->
             IF w[i].name = f THEN [name |-> f, time_added |-> t] ELSE w[i] ]
    ELSE Append(w, [name |-> f, time_added |-> t])

\* del self.waiting[f]
WaitingDel(w, f) == SelectSeq(w, LAMBDA e : e.name # f)

(* ---------------- state ---------------- *)

VARIABLES
    \* the environment
    fsA,          \* folder A: name -> NoFile, DirEntry or size
    fsB,          \* folder B: name -> exists
    fsC,          \* folder C: name -> NoFile or size
    fsTmp,        \* folder C: name -> NoFile or size of <name>.tmp
    fsD,          \* folder D: report -> NoFile or modification time
    clock,        \* datetime.now(), seconds
    pliki,        \* the table pliki, rows in insertion order
    \* PollingEngine fields
    waiting, seen_in_b, last_b_time, d_cache,
    processed, errors, stop_event,
    \* position of the polling thread and its locals
    pc,           \* statement the thread is at
    ticks,        \* iterations of the loop started so far
    b_todo,       \* _process_folder_b: rest of list(self.waiting.keys())
    cur,          \* _archive_file: filename
    updates,      \* _process_folder_d: the list updates
    upd_idx,      \* _process_folder_d: position of the batch loop
    \* history of the current operation
    attempt0,     \* state at the start of the current archival attempt
    removed_at,   \* time of the last os.remove of an intake original
    scanned,      \* report -> modification time read by the last scan
    upd_applied,  \* indexes of updates whose update_cnc_data returned
    upd_raised_at, \* index of the update whose update_cnc_data raised, or 0
    thrown,       \* tracked names whose last archival attempt raised
    \* callers outside the polling thread
    db_ret,       \* the last call of a Database method and what it returned
    threads,      \* the threads of further calls of start(), with their positions
    gs,           \* get_stats in the GUI thread: position and values read
    pm,           \* _parse_material: the text passed and the pair returned
    ct            \* extract_cnc_time: the text passed and the text returned

env == << fsA, fsB, fsC, fsTmp, fsD, clock, pliki >>
eng == << waiting, seen_in_b, last_b_time, d_cache, processed, errors,
          stop_event >>
ctl == << pc, ticks, b_todo, cur, updates, upd_idx >>
track == << attempt0, removed_at, scanned, upd_applied, upd_raised_at,
           thrown >>
\* what the polling thread never writes
calls == << db_ret, threads, gs, pm, ct >>
hist == << track, calls >>
vars == << env, eng, ctl, hist >>

NoName == [stem |-> "", ext |-> ""]
NoAttempt == [active |-> FALSE]
NoCall == [op |-> "none"]
NoStats == [pc |-> "idle"]
NoParse == [called |-> FALSE]
NoExtract == [called |-> FALSE]

\* the state after PollingEngine(config) and start(), all but the table
InitEngine ==
    /\ fsA = [ f \in IntakeNames |-> NoFile ]
    /\ fsB = [ f \in IntakeNames |-> FALSE ]
    /\ fsC = [ f \in IntakeNames |-> NoFile ]
    /\ fsTmp = [ f \in IntakeNames |-> NoFile ]
    /\ fsD = [ r \in ReportNames |-> NoFile ]
    /\ clock = 0
    /\ waiting = << >>
    /\ seen_in_b = [ f \in IntakeNames |-> None ]
    /\ last_b_time = None
    /\ d_cache = [ r \in ReportNames |-> None ]
    /\ processed = 0
    /\ errors = 0
    /\ stop_event = FALSE
    /\ pc = "top"
    /\ ticks = 0
    /\ b_todo = << >>
    /\ cur = NoName
    /\ updates = << >>
    /\ upd_idx = 0
    /\ attempt0 = NoAttempt
    /\ removed_at = None
    /\ scanned = [ r \in ReportNames |-> None ]
    /\ upd_applied = {}
    /\ upd_raised_at = 0
    /\ thrown = {}
    /\ db_ret = NoCall
    /\ threads = << >>
    /\ gs = NoStats

\* Database.init() on a new database file
Init ==
    /\ InitEngine
    /\ pliki = << >>
    /\ pm = NoParse
    /\ ct = NoExtract

\* tables a database file of earlier runs can hold when the engine starts
StoredTables ==
    { << >>,
      << [ nazwa |-> [stem |-> "j1", ext |-> "iso"],
           sciezka_a |-> << "folder_a", [stem |-> "j1", ext |-> "iso"] >>,
           sciezka_b |-> << "folder_b", [stem |-> "j1", ext |-> "iso"] >>,
           sciezka_c |-> << "folder_c", [stem |-> "j1", ext |-> "iso"] >>,
           czas_wrzucenia |-> 0, czas_pobrania |-> 0,
           czas_archiwizacji |-> 0, czas_cyklu_ab |-> NoCycle,
           material |-> Brak, grubosc |-> Brak, czas_realny_cnc |-> Brak ] >> }

\* Database.init() on the database file of earlier runs
InitReports ==
    /\ InitEngine
    /\ pliki \in StoredTables
    /\ pm = NoParse
    /\ ct = NoExtract

(* ---------------- the environment ---------------- *)

\* The folders change while the polling thread sleeps: the state pc = "top"
\* stands for the moment the loop tests the stop signal after its sleep.

\* a file or a directory is put into folder A
EnvPutA(f, entry) ==
    /\ pc = "top"
    /\ fsA[f] = NoFile
    /\ entry \in {1, DirEntry}
    /\ fsA' = [fsA EXCEPT ![f] = entry]
    /\ UNCHANGED << fsB, fsC, fsTmp, fsD, clock, pliki, eng, ctl, hist >>

\* the machine stage receives the file (the engine looks in B for tracked
\* names only, so an arrival before the file is in A is the same as a later
\* one)
EnvPutB(f) ==
    /\ pc = "top"
    /\ IsRegular(fsA[f]) \/ InWaiting(waiting, f)
    /\ ~fsB[f]
    /\ fsB' = [fsB EXCEPT ![f] = TRUE]
    /\ UNCHANGED << fsA, fsC, fsTmp, fsD, clock, pliki, eng, ctl, hist >>

\* the machine stage consumes the file (a removal before the first sighting
\* is the same as a later arrival)
EnvTakeB(f) ==
    /\ pc = "top"
    /\ fsB[f]
    /\ seen_in_b[f] # None
    /\ fsB' = [fsB EXCEPT ![f] = FALSE]
    /\ UNCHANGED << fsA, fsC, fsTmp, fsD, clock, pliki, eng, ctl, hist >>

\* a report is written (created or rewritten) with modification time m
EnvWriteD(r, m) ==
    /\ pc = "top"
    /\ m \in 1..MaxMtime
    /\ fsD[r] # m
    /\ fsD' = [fsD EXCEPT ![r] = m]
    /\ UNCHANGED << fsA, fsB, fsC, fsTmp, clock, pliki, eng, ctl, hist >>

(* ---------------- PollingEngine.stop ---------------- *)

\* self.stop_event.set(), from the main thread at any moment; a call with
\* the signal already set changes nothing
stop ==
    /\ ~stop_event
    /\ stop_event' = TRUE
    /\ UNCHANGED << env, waiting, seen_in_b, last_b_time, d_cache, processed,
                    errors, ctl, hist >>

(* ---------------- PollingEngine.start ---------------- *)

\* A further call of start(): nothing tests whether a thread is running;
\* self.thread is overwritten and a new thread enters _run on the same
\* engine.  (The thread of the first call is the one pc follows.)
\* (late records whether the signal was set when the thread was created,
\* cycles the number of cycles the thread has started.)

\* start with self.stop_event.clear() before the thread is created
startClearing ==
    /\ Len(threads) < MaxStarts
    /\ stop_event' = FALSE
    /\ threads' = Append(threads, [ pc |-> "top", late |-> stop_event,
                                    cycles |-> 0 ])
    /\ UNCHANGED << env, waiting, seen_in_b, last_b_time, d_cache, processed,
                    errors, ctl, track, db_ret, gs, pm, ct >>

start ==
    /\ Len(threads) < MaxStarts
    /\ threads' = Append(threads, [ pc |-> "top", late |-> stop_event,
                                    cycles |-> 0 ])
    /\ UNCHANGED << env, eng, ctl, track, db_ret, gs, pm, ct >>

\* _run in a thread of a further start(), while the folders A and D are
\* empty and no file is tracked: the three steps find nothing to do

\* while not self.stop_event.is_set()
ThreadLoopTop(i) ==
    /\ i <= Len(threads)
    /\ threads[i].pc = "top"
    /\ IF stop_event
       THEN /\ threads' = [threads EXCEPT ![i].pc = "stopped"]
            /\ ticks' = ticks
       ELSE /\ ticks < MaxTicks
            /\ threads' = [threads EXCEPT ![i].pc = "A",
                                          ![i].cycles = @ + 1]
            /\ ticks' = ticks + 1
    /\ UNCHANGED << env, eng, pc, b_todo, cur, updates, upd_idx, track,
                    db_ret, gs, pm, ct >>

\* _process_folder_a, _process_folder_b, _process_folder_d in turn
ThreadStep(i) ==
    /\ i <= Len(threads)
    /\ threads[i].pc \in {"A", "B", "D"}
    /\ \A f \in IntakeNames : fsA[f] = NoFile
    /\ waiting = << >>
    /\ \A r \in ReportNames : fsD[r] = NoFile
    /\ threads' = [threads EXCEPT ![i].pc = CASE @ = "A" -> "B"
                                              [] @ = "B" -> "D"
                                              [] @ = "D" -> "sleep"]
    /\ UNCHANGED << env, eng, ctl, track, db_ret, gs, pm, ct >>

\* self.stop_event.wait(sleep_time); the time it takes may be time a sleep
\* of another thread has counted already
ThreadSleep(i, dt) ==
    /\ i <= Len(threads)
    /\ threads[i].pc = "sleep"
    /\ clock' = IF stop_event THEN clock ELSE clock + dt
    /\ threads' = [threads EXCEPT ![i].pc = "top"]
    /\ UNCHANGED << fsA, fsB, fsC, fsTmp, fsD, pliki, eng, ctl, track, db_ret,
                    gs, pm, ct >>

(* ---------------- PollingEngine._run ---------------- *)

\* while not self.stop_event.is_set(): cycle_start = time.monotonic()
RunLoopTop ==
    /\ pc = "top"
    /\ IF stop_event
       THEN pc' = "stopped" /\ ticks' = ticks
       ELSE ticks < MaxTicks /\ pc' = "A" /\ ticks' = ticks + 1
    /\ UNCHANGED << env, eng, b_todo, cur, updates, upd_idx, hist >>

\* RunSleep with time.sleep(sleep_time) in the place of the wait
RunSleepDeaf(dt) ==
    /\ pc = "sleep"
    /\ clock' = clock + dt
    /\ pc' = "top"
    /\ updates' = << >>
    /\ upd_idx' = 0
    /\ upd_applied' = {}
    /\ upd_raised_at' = 0
    /\ UNCHANGED << fsA, fsB, fsC, fsTmp, fsD, pliki, eng, ticks, b_todo, cur,
                    attempt0, removed_at, scanned, thrown, calls >>

\* self.stop_event.wait(sleep_time) returns at once when the signal is set
\* and after sleep_time otherwise; the locals of the cycle are gone
RunSleep(dt) ==
    /\ pc = "sleep"
    /\ clock' = IF stop_event THEN clock ELSE clock + dt
    /\ pc' = "top"
    /\ updates' = << >>
    /\ upd_idx' = 0
    /\ upd_applied' = {}
    /\ upd_raised_at' = 0
    /\ UNCHANGED << fsA, fsB, fsC, fsTmp, fsD, pliki, eng, ticks, b_todo, cur,
                    attempt0, removed_at, scanned, thrown, calls >>

(* ---------------- PollingEngine._process_folder_a ---------------- *)

\* what the 0.1 s between the two size reads can do to a file
SleepOutcomes(entry) ==
    {entry, NoFile} \cup (IF entry < MaxSize THEN {entry + 1} ELSE {})

\* ScanEntryA without the test 'filename in self.waiting'
ScanEntryANoTrackedTest(w, f, before, after, now) ==
    IF ~ISO_PATTERN(f) THEN w
    ELSE IF ~IsRegular(before) THEN w
    ELSE IF after = NoFile THEN w
    ELSE IF after # before THEN w
    ELSE WaitingPut(w, f, now)

\* the body of the loop for one listed name: before is the entry at the
\* first size read, after the entry at the second one (NoFile: OSError)
ScanEntryA(w, f, before, after, now) ==
    IF ~ISO_PATTERN(f) THEN w
    ELSE IF InWaiting(w, f) THEN w
    ELSE IF ~IsRegular(before) THEN w
    ELSE IF after = NoFile THEN w
    ELSE IF after # before THEN w
    ELSE WaitingPut(w, f, now)

RECURSIVE ScanA(_, _, _, _, _)
ScanA(files, w, before, after, now) ==
    IF files = << >> THEN w
    ELSE ScanA(Tail(files),
               ScanEntryA(w, Head(files), before[Head(files)],
                          after[Head(files)], now),
               before, after, now)

\* the names whose size is read twice
Probed(w, fs) ==
    { f \in IntakeNames :
        ISO_PATTERN(f) /\ ~InWaiting(w, f) /\ IsRegular(fs[f]) }

ProcessFolderA ==
    /\ pc = "A"
    /\ \E files \in Listings({ f \in IntakeNames : fsA[f] # NoFile }) :
       \E after \in [ IntakeNames -> {NoFile, DirEntry} \cup (0..MaxSize) ] :
          /\ \A f \in IntakeNames :
                IF f \in Probed(waiting, fsA)
                THEN after[f] \in SleepOutcomes(fsA[f])
                ELSE after[f] = fsA[f]
          /\ fsA' = after
          /\ waiting' = ScanA(files, waiting, fsA, after, clock)
    /\ pc' = "B"
    /\ UNCHANGED << fsB, fsC, fsTmp, fsD, clock, pliki, seen_in_b,
                    last_b_time, d_cache, processed, errors, stop_event,
                    ticks, b_todo, cur, updates, upd_idx, hist >>

\* ProcessFolderARaises with no handler in _run: the exception ends the
\* thread
ProcessFolderARaisesUncaught ==
    /\ pc = "A"
    /\ errors' = errors + 1
    /\ pc' = "stopped"
    /\ UNCHANGED << env, waiting, seen_in_b, last_b_time, d_cache, processed,
                    stop_event, ticks, b_todo, cur, updates, upd_idx, hist >>

\* os.listdir raises something that is not an OSError (a ValueError for a
\* configured path with an embedded NUL): _safe_listdir lets it through and
\* the handler of _run takes it
ProcessFolderARaises ==
    /\ pc = "A"
    /\ errors' = errors + 1
    /\ pc' = "sleep"
    /\ UNCHANGED << env, waiting, seen_in_b, last_b_time, d_cache, processed,
                    stop_event, ticks, b_todo, cur, updates, upd_idx, hist >>

(* ---------------- PollingEngine._process_folder_b ---------------- *)

\* now = datetime.now(); for filename in list(self.waiting.keys())
ProcessFolderB ==
    /\ pc = "B"
    /\ b_todo' = WaitingKeys(waiting)
    /\ pc' = "Bscan"
    /\ UNCHANGED << env, eng, ticks, cur, updates, upd_idx, hist >>

\* ArchiveDue with the test 'elapsed <= ARCHIVE_DELAY'
ArchiveDueStrict(f, inB, seen, now) ==
    /\ inB
    /\ seen[f] # None
    /\ ~(now - seen[f] <= ARCHIVE_DELAY)

\* whether the loop body calls _archive_file for f; seen is self.seen_in_b
ArchiveDue(f, inB, seen, now) ==
    /\ inB
    /\ seen[f] # None
    /\ ~(now - seen[f] < ARCHIVE_DELAY)

\* ScanEntryB with the sighting of a file that has left B cleared
ScanEntryBResetting ==
    /\ pc = "Bscan"
    /\ b_todo # << >>
    /\ LET f == Head(b_todo) IN
       /\ b_todo' = Tail(b_todo)
       /\ IF ArchiveDue(f, fsB[f], seen_in_b, clock)
          THEN /\ pc' = "copy"
               /\ cur' = f
               /\ attempt0' = [ active |-> TRUE, src |-> fsA[f],
                                waiting |-> waiting, seen_in_b |-> seen_in_b,
                                last_b_time |-> last_b_time,
                                removed_at |-> removed_at,
                                processed |-> processed, errors |-> errors,
                                pliki |-> pliki ]
               /\ UNCHANGED seen_in_b
          ELSE /\ pc' = "Bscan"
               /\ seen_in_b' = IF fsB[f] /\ seen_in_b[f] = None
                               THEN [seen_in_b EXCEPT ![f] = clock]
                               ELSE IF ~fsB[f]
                               THEN [seen_in_b EXCEPT ![f] = None]
                               ELSE seen_in_b
               /\ UNCHANGED << cur, attempt0 >>
    /\ UNCHANGED << env, waiting, last_b_time, d_cache, processed, errors,
                    stop_event, ticks, updates, upd_idx, removed_at, scanned,
                    upd_applied, upd_raised_at, thrown, calls >>

\* one iteration of the loop, up to the call of _archive_file
ScanEntryB ==
    /\ pc = "Bscan"
    /\ b_todo # << >>
    /\ LET f == Head(b_todo) IN
       /\ b_todo' = Tail(b_todo)
       /\ IF ArchiveDue(f, fsB[f], seen_in_b, clock)
          THEN /\ pc' = "copy"
               /\ cur' = f
               /\ attempt0' = [ active |-> TRUE, src |-> fsA[f],
                                waiting |-> waiting, seen_in_b |-> seen_in_b,
                                last_b_time |-> last_b_time,
                                removed_at |-> removed_at,
                                processed |-> processed, errors |-> errors,
                                pliki |-> pliki ]
               /\ UNCHANGED seen_in_b
          ELSE /\ pc' = "Bscan"
               /\ seen_in_b' = IF fsB[f] /\ seen_in_b[f] = None
                               THEN [seen_in_b EXCEPT ![f] = clock]
                               ELSE seen_in_b
               /\ UNCHANGED << cur, attempt0 >>
    /\ UNCHANGED << env, waiting, last_b_time, d_cache, processed, errors,
                    stop_event, ticks, updates, upd_idx, removed_at, scanned,
                    upd_applied, upd_raised_at, thrown, calls >>

\* the loop is exhausted
ProcessFolderBDone ==
    /\ pc = "Bscan"
    /\ b_todo = << >>
    /\ pc' = "D"
    /\ UNCHANGED << env, eng, ticks, b_todo, cur, updates, upd_idx, hist >>

(* ---------------- PollingEngine._archive_file ---------------- *)

\* leaving the try block by an exception
Raise ==
    pc' = "except"

\* ArchCopy with shutil.move in the place of shutil.copy2
ArchCopyMove(outcome) ==
    /\ pc = "copy"
    /\ outcome \in {"ok", "failed"}
    /\ IF ~IsRegular(fsA[cur]) \/ outcome = "failed"
       THEN Raise /\ UNCHANGED << fsA, fsTmp >>
       ELSE /\ fsTmp' = [fsTmp EXCEPT ![cur] = fsA[cur]]
            /\ fsA' = [fsA EXCEPT ![cur] = NoFile]
            /\ pc' = "rename"
    /\ UNCHANGED << fsB, fsC, fsD, clock, pliki, eng, ticks, b_todo, cur,
                    updates, upd_idx, hist >>

\* 1. shutil.copy2(path_a, temp_path)
ArchCopy(outcome) ==
    /\ pc = "copy"
    /\ outcome \in {"ok", "short", "failed", "partial"}
    /\ IF ~IsRegular(fsA[cur])
       THEN \* the source cannot be opened
            /\ outcome = "failed"
            /\ Raise
            /\ UNCHANGED fsTmp
       ELSE CASE outcome = "ok" ->
                   /\ fsTmp' = [fsTmp EXCEPT ![cur] = fsA[cur]]
                   /\ pc' = "rename"
              [] outcome = "short" ->
                   \* the copy returns but the destination lacks data
                   /\ fsA[cur] >= 1
                   /\ fsTmp' = [fsTmp EXCEPT ![cur] = fsA[cur] - 1]
                   /\ pc' = "rename"
              [] outcome = "failed" ->
                   \* the destination cannot be opened
                   /\ Raise
                   /\ UNCHANGED fsTmp
              [] outcome = "partial" ->
                   \* writing fails after the destination was created
                   /\ fsTmp' = [fsTmp EXCEPT ![cur] = 0]
                   /\ Raise
    /\ UNCHANGED << fsA, fsB, fsC, fsD, clock, pliki, eng, ticks, b_todo, cur,
                    updates, upd_idx, hist >>

\* ArchRename without the comparison of the two sizes
ArchRenameUnverified(outcome) ==
    /\ pc = "rename"
    /\ outcome \in {"ok", "failed"}
    /\ IF fsTmp[cur] = NoFile
       THEN Raise /\ UNCHANGED << fsC, fsTmp >>
       ELSE IF outcome = "failed"
       THEN Raise /\ UNCHANGED << fsC, fsTmp >>
       ELSE /\ fsC' = [fsC EXCEPT ![cur] = fsTmp[cur]]
            /\ fsTmp' = [fsTmp EXCEPT ![cur] = NoFile]
            /\ pc' = "remove"
    /\ UNCHANGED << fsA, fsB, fsD, clock, pliki, eng, ticks, b_todo, cur,
                    updates, upd_idx, hist >>

\* 2. the two integrity checks, 3. os.replace(temp_path, path_c)
ArchRename(outcome) ==
    /\ pc = "rename"
    /\ outcome \in {"ok", "failed"}
    /\ IF fsTmp[cur] = NoFile
       THEN Raise /\ UNCHANGED << fsC, fsTmp >>
       ELSE IF fsTmp[cur] # fsA[cur]
       THEN Raise /\ UNCHANGED << fsC, fsTmp >>
       ELSE IF outcome = "failed"
       THEN Raise /\ UNCHANGED << fsC, fsTmp >>
       ELSE /\ fsC' = [fsC EXCEPT ![cur] = fsTmp[cur]]
            /\ fsTmp' = [fsTmp EXCEPT ![cur] = NoFile]
            /\ pc' = "remove"
    /\ UNCHANGED << fsA, fsB, fsD, clock, pliki, eng, ticks, b_todo, cur,
                    updates, upd_idx, hist >>

\* 4. the check of path_c, 5. os.remove(path_a)
ArchRemove(outcome) ==
    /\ pc = "remove"
    /\ outcome \in {"ok", "failed"}
    /\ IF fsC[cur] = NoFile
       THEN Raise /\ UNCHANGED << fsA, removed_at >>
       ELSE IF outcome = "failed"
       THEN Raise /\ UNCHANGED << fsA, removed_at >>
       ELSE /\ fsA' = [fsA EXCEPT ![cur] = NoFile]
            /\ removed_at' = clock
            /\ pc' = "persist"
    /\ UNCHANGED << fsB, fsC, fsTmp, fsD, clock, pliki, eng, ticks, b_todo,
                    cur, updates, upd_idx, attempt0, scanned, upd_applied,
                    upd_raised_at, thrown, calls >>

\* CycleTime with the operands of the difference exchanged
CycleTimeSwapped(last, now) ==
    IF last # None THEN format_timedelta(last - now) ELSE NoCycle

\* 6. the value of cycle_time
CycleTime(last, now) ==
    IF last # None THEN format_timedelta(now - last) ELSE NoCycle

\* os.path.join(self.cfg[folder], filename)
Path(folder, filename) == << folder, filename >>

\* FileRecord with the first two timestamps exchanged
FileRecordSwapped(filename, time_added, seen, now, cycle_time) ==
    [ nazwa |-> filename,
      sciezka_a |-> Path("folder_a", filename),
      sciezka_b |-> Path("folder_b", filename),
      sciezka_c |-> Path("folder_c", filename),
      czas_wrzucenia |-> seen,
      czas_pobrania |-> time_added,
      czas_archiwizacji |-> now,
      czas_cyklu_ab |-> cycle_time,
      material |-> Brak,
      grubosc |-> Brak,
      czas_realny_cnc |-> Brak ]

\* 7. the FileRecord passed to Database.insert
FileRecord(filename, time_added, seen, now, cycle_time) ==
    [ nazwa |-> filename,
      sciezka_a |-> Path("folder_a", filename),
      sciezka_b |-> Path("folder_b", filename),
      sciezka_c |-> Path("folder_c", filename),
      czas_wrzucenia |-> time_added,
      czas_pobrania |-> seen,
      czas_archiwizacji |-> now,
      czas_cyklu_ab |-> cycle_time,
      material |-> Brak,
      grubosc |-> Brak,
      czas_realny_cnc |-> Brak ]

\* 6. cycle time, 7. Database.insert, 8. cleanup of the state
ArchPersist(outcome) ==
    /\ pc = "persist"
    /\ outcome \in {"ok", "failed"}
    /\ last_b_time' = clock
    /\ IF outcome = "failed"
       THEN \* the transaction is rolled back and insert raises
            /\ Raise
            /\ UNCHANGED << pliki, waiting, seen_in_b, processed, cur,
                            attempt0, thrown >>
       ELSE /\ pliki' = Append(pliki,
                          FileRecord(cur, WaitingEntry(waiting, cur).time_added,
                                     seen_in_b[cur], clock,
                                     CycleTime(last_b_time, clock)))
            /\ waiting' = WaitingDel(waiting, cur)
            /\ seen_in_b' = [seen_in_b EXCEPT ![cur] = None]
            /\ processed' = processed + 1
            /\ pc' = "Bscan"
            /\ cur' = NoName
            /\ attempt0' = NoAttempt
            /\ thrown' = thrown \ {cur}
    /\ UNCHANGED << fsA, fsB, fsC, fsTmp, fsD, clock, d_cache, errors,
                    stop_event, ticks, b_todo, updates, upd_idx, removed_at,
                    scanned, upd_applied, upd_raised_at, calls >>

\* ArchExcept with the entry of the file dropped from the tracked state
ArchExceptAbandon ==
    /\ pc = "except"
    /\ errors' = errors + 1
    /\ fsTmp' = IF fsTmp[cur] # NoFile
                THEN [fsTmp EXCEPT ![cur] = NoFile]
                ELSE fsTmp
    /\ waiting' = WaitingDel(waiting, cur)
    /\ seen_in_b' = [seen_in_b EXCEPT ![cur] = None]
    /\ pc' = "Bscan"
    /\ cur' = NoName
    /\ attempt0' = NoAttempt
    /\ thrown' = thrown \cup {cur}
    /\ UNCHANGED << fsA, fsB, fsC, fsD, clock, pliki, last_b_time, d_cache,
                    processed, stop_event, ticks, b_todo, updates, upd_idx,
                    removed_at, scanned, upd_applied, upd_raised_at, calls >>

\* except Exception: count the error, remove the temp file if it exists
ArchExcept ==
    /\ pc = "except"
    /\ errors' = errors + 1
    /\ fsTmp' = IF fsTmp[cur] # NoFile
                THEN [fsTmp EXCEPT ![cur] = NoFile]
                ELSE fsTmp
    /\ pc' = "Bscan"
    /\ cur' = NoName
    /\ attempt0' = NoAttempt
    /\ thrown' = thrown \cup {cur}
    /\ UNCHANGED << fsA, fsB, fsC, fsD, clock, pliki, waiting, seen_in_b,
                    last_b_time, d_cache, processed, stop_event, ticks,
                    b_todo, updates, upd_idx, removed_at, scanned,
                    upd_applied, upd_raised_at, calls >>

\* The steps 6 to 8 one statement at a time, for a reader in another thread
\* (ArchPersist is the four of them in one step).

\* 6. cycle time, 7. Database.insert
ArchInsert(outcome) ==
    /\ pc = "persist"
    /\ outcome \in {"ok", "failed"}
    /\ last_b_time' = clock
    /\ IF outcome = "failed"
       THEN Raise /\ UNCHANGED pliki
       ELSE /\ pliki' = Append(pliki,
                          FileRecord(cur, WaitingEntry(waiting, cur).time_added,
                                     seen_in_b[cur], clock,
                                     CycleTime(last_b_time, clock)))
            /\ pc' = "del_waiting"
    /\ UNCHANGED << fsA, fsB, fsC, fsTmp, fsD, clock, waiting, seen_in_b,
                    d_cache, processed, errors, stop_event, ticks, b_todo,
                    cur, updates, upd_idx, hist >>

\* 8. del self.waiting[filename]
ArchDelWaiting ==
    /\ pc = "del_waiting"
    /\ waiting' = WaitingDel(waiting, cur)
    /\ pc' = "pop_seen"
    /\ UNCHANGED << env, seen_in_b, last_b_time, d_cache, processed, errors,
                    stop_event, ticks, b_todo, cur, updates, upd_idx, hist >>

\* self.seen_in_b.pop(filename, None)
ArchPopSeen ==
    /\ pc = "pop_seen"
    /\ seen_in_b' = [seen_in_b EXCEPT ![cur] = None]
    /\ pc' = "count"
    /\ UNCHANGED << env, waiting, last_b_time, d_cache, processed, errors,
                    stop_event, ticks, b_todo, cur, updates, upd_idx, hist >>

\* self.stats["processed"] += 1, and the return of _archive_file
ArchCount ==
    /\ pc = "count"
    /\ processed' = processed + 1
    /\ pc' = "Bscan"
    /\ cur' = NoName
    /\ attempt0' = NoAttempt
    /\ thrown' = thrown \ {cur}
    /\ UNCHANGED << env, waiting, seen_in_b, last_b_time, d_cache, errors,
                    stop_event, ticks, b_todo, updates, upd_idx, removed_at,
                    scanned, upd_applied, upd_raised_at, calls >>

(* ---------------- PollingEngine.get_stats ---------------- *)

\* len(self.seen_in_b)
SeenCount(seen) == Cardinality({ f \in IntakeNames : seen[f] # None })

\* The GUI thread evaluates the dict display item by item, and the polling
\* thread can run between two items.

\* **self.stats
GetStatsCopy ==
    /\ gs.pc \in {"idle", "done"}
    /\ gs' = [ pc |-> "waiting", processed |-> processed, errors |-> errors ]
    /\ UNCHANGED << env, eng, ctl, track, db_ret, threads, pm, ct >>

\* "waiting_count": len(self.waiting)
GetStatsWaiting ==
    /\ gs.pc = "waiting"
    /\ gs' = [ pc |-> "seen", processed |-> gs.processed,
               errors |-> gs.errors, waiting_count |-> Len(waiting) ]
    /\ UNCHANGED << env, eng, ctl, track, db_ret, threads, pm, ct >>

\* "in_b_count": len(self.seen_in_b), and the return of the dict
GetStatsSeen ==
    /\ gs.pc = "seen"
    /\ gs' = [ pc |-> "done", processed |-> gs.processed,
               errors |-> gs.errors, waiting_count |-> gs.waiting_count,
               in_b_count |-> SeenCount(seen_in_b) ]
    /\ UNCHANGED << env, eng, ctl, track, db_ret, threads, pm, ct >>

(* ---------------- Database.update_cnc_data ---------------- *)

\* update_cnc_data with an UPDATE that sets czas_archiwizacji too
update_cnc_data_stamped(rows, nazwa, material, grubosc, czas_cnc) ==
    [ i \in 1..Len(rows) |->
        IF rows[i].nazwa = nazwa
        THEN [rows[i] EXCEPT !.material = material, !.grubosc = grubosc,
                             !.czas_realny_cnc = czas_cnc,
                             !.czas_archiwizacji = None]
        ELSE rows[i] ]

\* UPDATE pliki SET material, grubosc, czas_realny_cnc WHERE nazwa = ?
update_cnc_data(rows, nazwa, material, grubosc, czas_cnc) ==
    [ i \in 1..Len(rows) |->
        IF rows[i].nazwa = nazwa
        THEN [rows[i] EXCEPT !.material = material, !.grubosc = grubosc,
                             !.czas_realny_cnc = czas_cnc]
        ELSE rows[i] ]

\* rowcount counting only the rows whose column values differ afterwards
rowcount_changed(rows, nazwa, after) ==
    Cardinality({ i \in 1..Len(rows) :
                    rows[i].nazwa = nazwa /\ after[i] # rows[i] })

\* cursor.rowcount of the UPDATE: the rows the WHERE clause selects, whether
\* or not the new values differ from the old ones; after is the table the
\* statement leaves
rowcount(rows, nazwa, after) ==
    Cardinality({ i \in 1..Len(rows) : rows[i].nazwa = nazwa })

(* ---------------- PollingEngine._process_folder_d ---------------- *)

\* what _parse_material and extract_cnc_time return for the text the report
\* holds at modification time m
ReportContent(m) ==
    [ material |-> IF m % 2 = 1 THEN "STEEL" ELSE "ALU",
      grubosc |-> IF m % 2 = 1 THEN "3MM" ELSE "5MM",
      cnc_time |-> IF m % 2 = 1 THEN "01:23:45" ELSE Brak ]

\* Unchanged with the cache looked up by the full path, a key that is never
\* stored: d_cache.get returns None
UnchangedByPath(cache, r, mtime) == None = mtime

\* whether the scan skips the report as unchanged
Unchanged(cache, r, mtime) == cache[r] = mtime

\* ScanEntryD with the cache written after the content has been read
ScanEntryDCacheLate(st, r, mtime, io) ==
    IF ~TXT_PATTERN(r) THEN st
    ELSE IF io = "gone" THEN st
    ELSE IF Unchanged(st.d_cache, r, mtime)
         THEN [st EXCEPT !.scanned[r] = mtime]
    ELSE LET st1 == [st EXCEPT !.scanned[r] = mtime]
         IN  IF ~ISO_EXTRACT_PATTERN(r) THEN st1
             ELSE IF io = "unreadable" THEN st1
             ELSE [st1 EXCEPT !.d_cache[r] = mtime,
                              !.updates =
                     Append(@, [ material |-> ReportContent(mtime).material,
                                 grubosc |-> ReportContent(mtime).grubosc,
                                 cnc_time |-> ReportContent(mtime).cnc_time,
                                 iso_name |-> iso_name(r) ])]

\* the loop body for one listed report.  st holds d_cache, updates and the
\* record of the modification times read; io[r] tells whether getmtime
\* ("gone") or the read of the content ("unreadable") fails
ScanEntryD(st, r, mtime, io) ==
    IF ~TXT_PATTERN(r) THEN st
    ELSE IF io = "gone" THEN st
    ELSE IF Unchanged(st.d_cache, r, mtime)
         THEN [st EXCEPT !.scanned[r] = mtime]
    ELSE LET st1 == [st EXCEPT !.d_cache[r] = mtime, !.scanned[r] = mtime]
         IN  IF ~ISO_EXTRACT_PATTERN(r) THEN st1
             ELSE IF io = "unreadable" THEN st1
             ELSE [st1 EXCEPT !.updates =
                     Append(@, [ material |-> ReportContent(mtime).material,
                                 grubosc |-> ReportContent(mtime).grubosc,
                                 cnc_time |-> ReportContent(mtime).cnc_time,
                                 iso_name |-> iso_name(r) ])]

RECURSIVE ScanD(_, _, _, _)
ScanD(files, st, fs, io) ==
    IF files = << >> THEN st
    ELSE ScanD(Tail(files),
               ScanEntryD(st, Head(files), fs[Head(files)], io[Head(files)]),
               fs, io)

\* the failures the scan can meet: getmtime fails for a listed report,
\* or the content of a report that is about to be read cannot be read
ScanFaults(cache, fs) ==
    { io \in [ ReportNames -> {"ok", "gone", "unreadable"} ] :
        \A r \in ReportNames :
           /\ fs[r] = NoFile => io[r] = "ok"
           /\ io[r] = "unreadable" =>
                 ISO_EXTRACT_PATTERN(r) /\ ~Unchanged(cache, r, fs[r]) }

\* the scan of the folder, up to the batch loop
ProcessFolderD ==
    /\ pc = "D"
    /\ \E files \in Listings({ r \in ReportNames : fsD[r] # NoFile }) :
       \E io \in ScanFaults(d_cache, fsD) :
          LET st == ScanD(files,
                          [ d_cache |-> d_cache, updates |-> << >>,
                            scanned |-> scanned ],
                          fsD, io)
          IN  /\ d_cache' = st.d_cache
              /\ scanned' = st.scanned
              /\ updates' = st.updates
              /\ IF st.updates = << >>
                 THEN pc' = "sleep" /\ upd_idx' = 0
                 ELSE pc' = "Dapply" /\ upd_idx' = 1
    /\ upd_applied' = {}
    /\ upd_raised_at' = 0
    /\ UNCHANGED << env, waiting, seen_in_b, last_b_time, processed, errors,
                    stop_event, ticks, b_todo, cur, attempt0, removed_at,
                    thrown, calls >>

\* one iteration of the batch loop; an exception of update_cnc_data leaves
\* _process_folder_d and is taken by the handler of _run
ApplyUpdate(outcome) ==
    /\ pc = "Dapply"
    /\ outcome \in {"ok", "failed"}
    /\ LET u == updates[upd_idx] IN
       IF outcome = "failed"
       THEN /\ errors' = errors + 1
            /\ upd_raised_at' = upd_idx
            /\ pc' = "sleep"
            /\ UNCHANGED << pliki, upd_idx, upd_applied >>
       ELSE /\ pliki' = update_cnc_data(pliki, u.iso_name, u.material,
                                        u.grubosc, u.cnc_time)
            /\ upd_applied' = upd_applied \cup {upd_idx}
            /\ upd_idx' = upd_idx + 1
            /\ pc' = IF upd_idx = Len(updates) THEN "sleep" ELSE "Dapply"
            /\ UNCHANGED << errors, upd_raised_at >>
    /\ UNCHANGED << fsA, fsB, fsC, fsTmp, fsD, clock, waiting, seen_in_b,
                    last_b_time, d_cache, processed, stop_event, ticks,
                    b_todo, cur, updates, attempt0, removed_at, scanned,
                    thrown, calls >>

(* ---------------- PollingEngine._parse_material ---------------- *)

\* A text is a sequence of characters.

\* "Brak" as a text
BrakText == << "B", "r", "a", "k" >>

Rep(c, n) == [ i \in 1..n |-> c ]

\* s[:n]
Cut(s, n) == SubSeq(s, 1, IF Len(s) < n THEN Len(s) ELSE n)

IsSpace(c) == c \in { " ", "\n" }

\* str.strip()
strip(s) ==
    LET keep == { i \in 1..Len(s) : ~IsSpace(s[i]) }
    IN  IF keep = {} THEN << >>
        ELSE SubSeq(s, CHOOSE i \in keep : \A j \in keep : i <= j,
                       CHOOSE i \in keep : \A j \in keep : j <= i)

\* str.splitlines(): the pieces between line ends, none after the last one
RECURSIVE splitlines(_)
splitlines(s) ==
    LET ends == { i \in 1..Len(s) : s[i] = "\n" }
    IN  IF s = << >> THEN << >>
        ELSE IF ends = {} THEN << s >>
        ELSE LET k == CHOOSE i \in ends : \A j \in ends : i <= j
             IN  << SubSeq(s, 1, k - 1) >>
                    \o splitlines(SubSeq(s, k + 1, Len(s)))

\* [l.strip() for l in text.splitlines() if l.strip()]
StrippedLines(text) ==
    LET all == splitlines(text)
        kept == SelectSeq(all, LAMBDA l : strip(l) # << >>)
    IN  [ i \in 1..Len(kept) |-> strip(kept[i]) ]

startswith(s, c) == s # << >> /\ s[1] = c

\* c in s
Contains(s, c) == \E i \in 1..Len(s) : s[i] = c

\* s.split(c, 1)
split(s, c) ==
    IF ~Contains(s, c) THEN << s >>
    ELSE LET k == CHOOSE i \in 1..Len(s) :
                     s[i] = c /\ \A j \in 1..(i - 1) : s[j] # c
         IN  << SubSeq(s, 1, k - 1), SubSeq(s, k + 1, Len(s)) >>

\* the pair (material, grubosc) the method returns
parse_material(text) ==
    LET lines == StrippedLines(text)
    IN  IF lines = << >> THEN << BrakText, BrakText >>
        ELSE
        LET commented == startswith(lines[1], "(") \/ startswith(lines[1], ";")
            \* lines[1:3]
            next == SubSeq(lines, 2, IF Len(lines) < 3 THEN Len(lines) ELSE 3)
            found == { i \in 1..Len(next) :
                         Contains(next[i], "-") /\ ~startswith(next[i], "(") }
        IN  IF commented /\ found = {} THEN << BrakText, BrakText >>
            ELSE
            LET first == IF commented
                         THEN next[CHOOSE i \in found : \A j \in found : i <= j]
                         ELSE lines[1]
            IN  IF ~Contains(first, "-") THEN << Cut(first, 50), BrakText >>
                ELSE LET parts == split(first, "-")
                         material == Cut(strip(parts[1]), 50)
                         grubosc == IF Len(parts) > 1
                                    THEN Cut(strip(parts[2]), 20)
                                    ELSE BrakText
                     IN  << material, grubosc >>

\* the line of a report: l letters, r digits, with or without spaces round
\* them, and no, one or two hyphens
ReportLine(l, r, spaced, hyphens) ==
    LET pad == IF spaced THEN << " " >> ELSE << >>
    IN  pad \o Rep("S", l) \o pad
            \o (IF hyphens >= 1 THEN << "-" >> ELSE << >>)
            \o pad \o Rep("3", r)
            \o (IF hyphens = 2 THEN << "-", "M" >> ELSE << >>) \o pad

\* what precedes the line: nothing, a comment line of either kind, or an
\* empty line
Headers ==
    { << >>, << "(", "c", ")", "\n" >>, << ";", "c", "\n" >>, << "\n" >> }

\* the texts the method is explored with
Texts ==
    { h \o ReportLine(l, r, spaced, hyphens) \o << "\n" >> :
        h \in Headers, l \in 0..MaxLeft, r \in 0..MaxRight,
        spaced \in BOOLEAN, hyphens \in 0..2 }

InitParse ==
    /\ InitEngine
    /\ pliki = << >>
    /\ pm \in { [called |-> FALSE, text |-> t] : t \in Texts }
    /\ ct = NoExtract

\* material, grubosc = self._parse_material(text)
ParseMaterial ==
    /\ ~pm.called
    /\ pm' = [ called |-> TRUE, text |-> pm.text,
               ret |-> parse_material(pm.text) ]
    /\ UNCHANGED << env, eng, ctl, track, db_ret, threads, gs, ct >>

(* ---------------- extract_cnc_time ---------------- *)

\* the character at index i, "" beyond the ends of the text
At(t, i) == IF i \in 1..Len(t) THEN t[i] ELSE ""

IsDigit(c) == c \in { "0", "1", "2", "3", "4", "5", "6", "7", "8", "9" }

\* re.IGNORECASE, for the letters of the patterns
Fold(c) ==
    CASE c = "c" -> "C" [] c = "y" -> "Y" [] c = "l" -> "L" [] c = "e" -> "E"
      [] c = "t" -> "T" [] c = "i" -> "I" [] c = "m" -> "M" [] c = "u" -> "U"
      [] c = "r" -> "R" [] c = "n" -> "N" [] OTHER -> c

\* the literal w at index i
Word(t, i, w) == \A k \in 1..Len(w) : Fold(At(t, i + k - 1)) = w[k]

\* the index after the longest run of whitespace that starts at i
Spaces(t, i) ==
    CHOOSE j \in i..(Len(t) + 1) :
        /\ \A k \in i..(j - 1) : IsSpace(At(t, k))
        /\ ~IsSpace(At(t, j))

\* the index after the longest run of digits that starts at i
DigitsEnd(t, i) ==
    CHOOSE j \in i..(Len(t) + 1) :
        /\ \A k \in i..(j - 1) : IsDigit(At(t, k))
        /\ ~IsDigit(At(t, j))

\* ':\d{2}:\d{2}' at index j: the index after it, or 0
ClockRest(t, j) ==
    IF /\ At(t, j) = ":" /\ IsDigit(At(t, j + 1)) /\ IsDigit(At(t, j + 2))
       /\ At(t, j + 3) = ":" /\ IsDigit(At(t, j + 4)) /\ IsDigit(At(t, j + 5))
    THEN j + 6 ELSE 0

\* '\d{2}:\d{2}:\d{2}', or '\d{1,2}:\d{2}:\d{2}' when short, at index i:
\* the index after it, or 0
Clock(t, i, short) ==
    IF IsDigit(At(t, i)) /\ IsDigit(At(t, i + 1)) /\ ClockRest(t, i + 2) # 0
    THEN ClockRest(t, i + 2)
    ELSE IF short /\ IsDigit(At(t, i)) THEN ClockRest(t, i + 1)
    ELSE 0

\* '(?:[.,]\d+)?' at index j: the index after it
Frac(t, j) ==
    IF At(t, j) \in { ".", "," } /\ IsDigit(At(t, j + 1))
    THEN DigitsEnd(t, j + 1) ELSE j

NoMatch == [ found |-> FALSE, group |-> << >> ]

\* a match whose group(1) is t[a .. b-1]
Group(t, a, b) == [ found |-> TRUE, group |-> SubSeq(t, a, b - 1) ]

\* 'Time\s*[:=]\s*(\d{1,2}:\d{2}:\d{2}(?:[.,]\d+)?)' at index j
TimeAt(t, j) ==
    IF ~Word(t, j, << "T", "I", "M", "E" >>) THEN NoMatch
    ELSE LET a == Spaces(t, j + 4) IN
         IF At(t, a) \notin { ":", "=" } THEN NoMatch
         ELSE LET b == Spaces(t, a + 1)
                  e == Clock(t, b, TRUE)
              IN  IF e = 0 THEN NoMatch ELSE Group(t, b, Frac(t, e))

\* pattern 1 at index i: with the optional 'Cycle\s+', then without
Rule1At(t, i) ==
    LET cycle == IF Word(t, i, << "C", "Y", "C", "L", "E" >>)
                    /\ IsSpace(At(t, i + 5))
                 THEN TimeAt(t, Spaces(t, i + 5))
                 ELSE NoMatch
    IN  IF cycle.found THEN cycle ELSE TimeAt(t, i)

\* pattern 2 at index i
Rule2At(t, i) ==
    IF /\ At(t, i) \in { ";", "#" }
       /\ Word(t, i + 1, << "T", "I", "M", "E" >>)
       /\ At(t, i + 5) \in { "=", ":" }
    THEN LET b == Spaces(t, i + 6)
             e == Clock(t, b, FALSE)
         IN  IF e = 0 THEN NoMatch ELSE Group(t, b, Frac(t, e))
    ELSE NoMatch

\* pattern 3 at index i
Rule3At(t, i) ==
    IF /\ Word(t, i, << "C", "U", "T" >>) \/ Word(t, i, << "R", "U", "N" >>)
       /\ IsSpace(At(t, i + 3))
    THEN LET a == Spaces(t, i + 3) IN
         IF Word(t, a, << "T", "I", "M", "E" >>) /\ IsSpace(At(t, a + 4))
         THEN LET b == Spaces(t, a + 4)
                  e == Clock(t, b, TRUE)
              IN  IF e = 0 THEN NoMatch ELSE Group(t, b, e)
         ELSE NoMatch
    ELSE NoMatch

\* pattern 4 at index i
Rule4At(t, i) ==
    IF At(t, i) # "(" THEN NoMatch
    ELSE LET e == Clock(t, i + 1, FALSE) IN
         IF e # 0 /\ At(t, Frac(t, e)) = ")"
         THEN Group(t, i + 1, Frac(t, e))
         ELSE NoMatch

\* '\s*$' at index j with re.MULTILINE: whitespace up to the end of the text
\* or up to a line end
LineEnd(t, j) ==
    \E k \in j..(Len(t) + 1) :
        /\ \A n \in j..(k - 1) : IsSpace(At(t, n))
        /\ k = Len(t) + 1 \/ At(t, k) = "\n"

\* pattern 5 at index i
Rule5At(t, i) ==
    LET e == Clock(t, i, FALSE) IN
    IF e # 0 /\ LineEnd(t, Frac(t, e))
    THEN Group(t, i, Frac(t, e))
    ELSE NoMatch

RuleAt(k, t, i) ==
    CASE k = 1 -> Rule1At(t, i)
      [] k = 2 -> Rule2At(t, i)
      [] k = 3 -> Rule3At(t, i)
      [] k = 4 -> Rule4At(t, i)
      [] k = 5 -> Rule5At(t, i)

\* re.search(pattern k, text): the match at the leftmost index that has one
re_search(k, t) ==
    LET hits == { i \in 1..Len(t) : RuleAt(k, t, i).found }
    IN  IF hits = {} THEN NoMatch
        ELSE RuleAt(k, t, CHOOSE i \in hits : \A j \in hits : i <= j)

\* str.replace(a, b) for single characters
replace(s, a, b) == [ i \in 1..Len(s) |-> IF s[i] = a THEN b ELSE s[i] ]

\* patterns with the generic rules in front
patternsGenericFirst == << 5, 4, 3, 2, 1 >>

\* the list 'patterns'
patterns == << 1, 2, 3, 4, 5 >>

\* for pattern in patterns: ... return; return "Brak"
extract_cnc_time(text) ==
    LET matching == { n \in 1..Len(patterns) : re_search(patterns[n], text).found }
    IN  IF matching = {} THEN BrakText
        ELSE LET n == CHOOSE m \in matching : \A o \in matching : m <= o
             IN  strip(replace(re_search(patterns[n], text).group, ",", "."))

\* the times written in the reports: one-digit hours, two-digit hours, and a
\* fraction after a comma
Times ==
    { << "1", ":", "2", "3", ":", "4", "5" >>,
      << "0", "2", ":", "0", "0", ":", "0", "0" >>,
      << "0", "3", ":", "1", "5", ":", "0", "0", ",", "5" >> }

\* what a line has round its time: a label in front, parentheses, nothing,
\* or a unit behind
Labels ==
    { "Time", "cycle", "semi", "hash", "cut", "run", "paren", "plain", "unit" }

LabelText(label) ==
    CASE label = "Time"  -> << "T", "i", "m", "e", ":", " " >>
      [] label = "cycle" -> << "c", "y", "c", "l", "e", " ", " ", "t", "i",
                               "m", "e", " ", "=" >>
      [] label = "semi"  -> << ";", "T", "I", "M", "E", "=" >>
      [] label = "hash"  -> << "#", "t", "i", "m", "e", ":", " " >>
      [] label = "cut"   -> << "C", "U", "T", " ", "T", "I", "M", "E", " " >>
      [] label = "run"   -> << "R", "u", "n", " ", " ", "T", "i", "m", "e",
                               " ", " " >>
      [] label = "paren" -> << "(" >>
      [] OTHER -> << >>

TimeLines == [ label : Labels, time : Times ]

\* the characters of a line
LineText(l) ==
    LabelText(l.label) \o l.time
        \o (CASE l.label = "paren" -> << ")" >>
              [] l.label = "unit" -> << " ", "h" >>
              [] OTHER -> << >>)

\* the lines joined by line ends, with one after the last line
RECURSIVE Joined(_)
Joined(ls) ==
    IF ls = << >> THEN << >>
    ELSE LineText(Head(ls)) \o << "\n" >> \o Joined(Tail(ls))

\* the reports the function is explored with
Reports == UNION { [ 1..n -> TimeLines ] : n \in 0..MaxLines }

InitExtract ==
    /\ InitEngine
    /\ pliki = << >>
    /\ pm = NoParse
    /\ ct \in { [called |-> FALSE, lines |-> ls, text |-> Joined(ls)] :
                  ls \in Reports }

\* cnc_time = extract_cnc_time(content)
ExtractCncTime ==
    /\ ~ct.called
    /\ ct' = [ called |-> TRUE, lines |-> ct.lines, text |-> ct.text,
               ret |-> extract_cnc_time(ct.text) ]
    /\ UNCHANGED << env, eng, ctl, track, db_ret, threads, gs, pm >>

(* ---------------- Database: the methods on their own ---------------- *)

\* names update_cnc_data is called with: those of the rows, and the name
\* _process_folder_d derives from the report of j2.ISO
UpdateNames == IntakeNames \cup { iso_name(r) : r \in ReportNames }

\* patterns the search dialogs pass
SearchPatterns == { "j1", "iso" }

\* nazwa LIKE '%pattern%': the pattern occurs in the name, letters compared
\* without regard to case
Like(name, pattern) ==
    Lower(pattern) \in { Lower(name.stem), Lower(name.ext) }

\* Database.insert: the table after the INSERT
insert(rows, record) == Append(rows, record)

\* ORDER BY czas_archiwizacji DESC of the rows with the indexes idx
RECURSIVE OrderByArchDesc(_, _)
OrderByArchDesc(rows, idx) ==
    IF idx = {} THEN << >>
    ELSE LET m == CHOOSE i \in idx :
                     \A j \in idx :
                        rows[j].czas_archiwizacji <= rows[i].czas_archiwizacji
         IN  << rows[m] >> \o OrderByArchDesc(rows, idx \ {m})

\* Database.search: SELECT * ... WHERE nazwa LIKE ? ORDER BY ... DESC
search(rows, pattern) ==
    OrderByArchDesc(rows, { i \in 1..Len(rows) : Like(rows[i].nazwa, pattern) })

\* Database.get_by_name: SELECT sciezka_c, nazwa ... WHERE nazwa LIKE ?
get_by_name(rows, pattern) ==
    LET hits == SelectSeq(rows, LAMBDA r : Like(r.nazwa, pattern))
    IN  [ i \in 1..Len(hits) |->
            [ sciezka_c |-> hits[i].sciezka_c, nazwa |-> hits[i].nazwa ] ]

\* In each method the statement runs inside db_connection: when it fails
\* (locked: sqlite3.OperationalError after DB_TIMEOUT) the transaction is
\* rolled back and the exception leaves the method.

\* Database.insert(record) for a file archived at time t
DbInsert(f, locked) ==
    /\ Len(pliki) < MaxRows
    /\ LET t == Len(pliki) + 1
           record == FileRecord(f, t, t, t, NoCycle)
       IN  /\ pliki' = IF locked THEN pliki ELSE insert(pliki, record)
           /\ db_ret' = [ op |-> "insert", arg |-> f, locked |-> locked,
                          raised |-> locked,
                          value |-> IF locked THEN None ELSE Len(pliki) + 1 ]
    /\ UNCHANGED << fsA, fsB, fsC, fsTmp, fsD, clock, eng, ctl, track, threads,
                    gs, pm, ct >>

\* Database.update_cnc_data(nazwa, material, grubosc, czas_cnc) with what a
\* report of modification time m holds
DbUpdate(nazwa, m, locked) ==
    /\ m \in 1..MaxMtime
    /\ LET c == ReportContent(m)
           after == update_cnc_data(pliki, nazwa, c.material, c.grubosc,
                                    c.cnc_time)
       IN  /\ pliki' = IF locked THEN pliki ELSE after
           /\ db_ret' = [ op |-> "update", arg |-> nazwa, locked |-> locked,
                          raised |-> locked,
                          value |-> IF locked THEN None
                                    ELSE rowcount(pliki, nazwa, after) > 0 ]
    /\ UNCHANGED << fsA, fsB, fsC, fsTmp, fsD, clock, eng, ctl, track, threads,
                    gs, pm, ct >>

\* Database.search(pattern)
DbSearch(pattern, locked) ==
    /\ db_ret' = [ op |-> "search", arg |-> pattern, locked |-> locked,
                   raised |-> locked,
                   value |-> IF locked THEN None ELSE search(pliki, pattern) ]
    /\ UNCHANGED << env, eng, ctl, track, threads, gs, pm, ct >>

\* Database.get_by_name(pattern)
DbGetByName(pattern, locked) ==
    /\ db_ret' = [ op |-> "get_by_name", arg |-> pattern, locked |-> locked,
                   raised |-> locked,
                   value |-> IF locked THEN None
                             ELSE get_by_name(pliki, pattern) ]
    /\ UNCHANGED << env, eng, ctl, track, threads, gs, pm, ct >>

(* ---------------- specification ---------------- *)

\* the engine with files passing through A, B and C; no report is written
NextArchive ==
    \/ RunLoopTop
    \/ \E dt \in TickSteps : RunSleep(dt)
    \/ ProcessFolderA
    \/ ProcessFolderB
    \/ ScanEntryB
    \/ ProcessFolderBDone
    \/ ProcessFolderD
    \/ \E f \in IntakeNames, entry \in {1, DirEntry} : EnvPutA(f, entry)
    \/ \E f \in IntakeNames : EnvPutB(f)
    \/ \E f \in IntakeNames : EnvTakeB(f)
    \/ \E o \in {"ok", "short", "failed", "partial"} : ArchCopy(o)
    \/ \E o \in {"ok", "failed"} : ArchRename(o)
    \/ \E o \in {"ok", "failed"} : ArchRemove(o)
    \/ \E o \in {"ok", "failed"} : ArchPersist(o)
    \/ ArchExcept

SpecArchive == Init /\ [][NextArchive]_vars

\* the engine with reports written to D; no file enters A
NextReports ==
    \/ stop
    \/ RunLoopTop
    \/ RunSleep(POLL_INTERVAL)
    \/ ProcessFolderA
    \/ ProcessFolderARaises
    \/ ProcessFolderB
    \/ ProcessFolderBDone
    \/ ProcessFolderD
    \/ \E r \in ReportNames, m \in 1..MaxMtime : EnvWriteD(r, m)
    \/ \E o \in {"ok", "failed"} : ApplyUpdate(o)

SpecReports == InitReports /\ [][NextReports]_vars

\* the Database methods called in any order on a new database file
NextDatabase ==
    \/ \E f \in IntakeNames, locked \in BOOLEAN : DbInsert(f, locked)
    \/ \E n \in UpdateNames, m \in 1..MaxMtime, locked \in BOOLEAN :
          DbUpdate(n, m, locked)
    \/ \E p \in SearchPatterns, locked \in BOOLEAN : DbSearch(p, locked)
    \/ \E p \in SearchPatterns, locked \in BOOLEAN : DbGetByName(p, locked)

SpecDatabase == Init /\ [][NextDatabase]_vars

\* start() and stop() called in any order on a running engine whose folders
\* stay empty
NextThreads ==
    \/ start
    \/ stop
    \/ RunLoopTop
    \/ RunSleep(POLL_INTERVAL)
    \/ ProcessFolderA
    \/ ProcessFolderB
    \/ ProcessFolderBDone
    \/ ProcessFolderD
    \/ \E i \in 1..MaxStarts : ThreadLoopTop(i)
    \/ \E i \in 1..MaxStarts : ThreadStep(i)
    \/ \E i \in 1..MaxStarts, dt \in {0, POLL_INTERVAL} : ThreadSleep(i, dt)

SpecThreads == Init /\ [][NextThreads]_vars

\* the engine archiving files while the GUI thread calls get_stats
NextStats ==
    \/ RunLoopTop
    \/ RunSleep(ARCHIVE_DELAY)
    \/ ProcessFolderA
    \/ ProcessFolderB
    \/ ScanEntryB
    \/ ProcessFolderBDone
    \/ ProcessFolderD
    \/ \E f \in IntakeNames : EnvPutA(f, 1)
    \/ \E f \in IntakeNames : EnvPutB(f)
    \/ \E o \in {"ok", "failed"} : ArchCopy(o)
    \/ ArchRename("ok")
    \/ ArchRemove("ok")
    \/ ArchInsert("ok")
    \/ ArchDelWaiting
    \/ ArchPopSeen
    \/ ArchCount
    \/ ArchExcept
    \/ GetStatsCopy
    \/ GetStatsWaiting
    \/ GetStatsSeen

SpecStats == Init /\ [][NextStats]_vars

\* the report of j1.iso
R1 == [hash |-> TRUE, stem |-> "j1", suffix |-> "iso.txt"]

\* j1.iso archived without failures while its report is written to D
NextLate ==
    \/ RunLoopTop
    \/ RunSleep(ARCHIVE_DELAY)
    \/ ProcessFolderA
    \/ ProcessFolderB
    \/ ScanEntryB
    \/ ProcessFolderBDone
    \/ ProcessFolderD
    \/ EnvPutA(iso_name(R1), 1)
    \/ EnvPutB(iso_name(R1))
    \/ \E m \in 1..MaxMtime : EnvWriteD(R1, m)
    \/ ArchCopy("ok")
    \/ ArchRename("ok")
    \/ ArchRemove("ok")
    \/ ArchPersist("ok")
    \/ \E o \in {"ok", "failed"} : ApplyUpdate(o)

SpecLate == Init /\ [][NextLate]_vars

\* extract_cnc_time applied to a text
NextExtract == ExtractCncTime

SpecExtract == InitExtract /\ [][NextExtract]_vars

\* _parse_material applied to a text
NextParse == ParseMaterial

SpecParse == InitParse /\ [][NextParse]_vars

(* ======================= properties ======================= *)

ArchivePcs == {"copy", "rename", "remove", "persist", "except"}

\* the step that ends _archive_file normally
ArchivedStep == pc = "persist" /\ pc' = "Bscan"

\* the row the step has inserted
NewRow == pliki'[Len(pliki')]

\* one iteration of the loop of _process_folder_b
ExaminedStep == pc = "Bscan" /\ b_todo # << >>

\* the iteration calls _archive_file for the file it examines
Invoked == pc' = "copy" /\ cur' = Head(b_todo)

(* C1: during an archival attempt of a file whose intake original exists   *)
(* when the attempt starts, in every intermediate state of the attempt the *)
(* file is present in folder A or at its final path in folder C.           *)
C1_IntakeOrArchive ==
    (attempt0.active /\ IsRegular(attempt0.src))
        => (IsRegular(fsA[cur]) \/ IsRegular(fsC[cur]))

\* the attempt has deleted the original and not yet stored the record
C1_Witness ==
    /\ pc = "persist"
    /\ IsRegular(attempt0.src)
    /\ fsA[cur] = NoFile
    /\ IsRegular(fsC[cur])

(* C2: when an archival attempt has failed, at whatever step, the intake   *)
(* original that existed at its start is still present and unmodified.     *)
C2_FailureKeepsOriginal ==
    (pc = "except" /\ attempt0.active /\ IsRegular(attempt0.src))
        => fsA[cur] = attempt0.src

(* C3: a failed archival attempt changes nothing of the engine state but   *)
(* the error counter, which grows by one: in-flight entries, sightings,    *)
(* success counter, last_b_time and the table are as at the start of the   *)
(* attempt, and no temp file is left.                                      *)
C3_FailureFrame ==
    [][ (pc = "except" /\ attempt0.active)
          => /\ errors' = attempt0.errors + 1
             /\ waiting' = attempt0.waiting
             /\ seen_in_b' = attempt0.seen_in_b
             /\ processed' = attempt0.processed
             /\ last_b_time' = attempt0.last_b_time
             /\ pliki' = attempt0.pliki
             /\ fsTmp'[cur] = NoFile ]_vars

(* C4 as stated: the first sighting of a tracked file in B starts the      *)
(* timer without archiving, and on every later examination archival is     *)
(* invoked if and only if at least ARCHIVE_DELAY seconds have passed since *)
(* the first sighting.                                                     *)
C4_DwellEveryTick ==
    [][ ExaminedStep =>
          LET f == Head(b_todo) IN
          IF seen_in_b[f] = None
          THEN ~Invoked /\ (fsB[f] => seen_in_b'[f] = clock)
          ELSE Invoked <=> clock - seen_in_b[f] >= ARCHIVE_DELAY ]_vars

(* C4 amended: each time the machine-stage scan examines a tracked file    *)
(* that is in folder B, the first sighting starts the timer without        *)
(* archiving and a later one invokes archival if and only if at least      *)
(* ARCHIVE_DELAY seconds have passed since the first sighting; a tracked   *)
(* file that is not in folder B is passed over, whatever the elapsed time. *)
C4_DwellWhenPresent ==
    [][ ExaminedStep =>
          LET f == Head(b_todo) IN
          /\ ~fsB[f] => ~Invoked /\ seen_in_b' = seen_in_b
          /\ (fsB[f] /\ seen_in_b[f] = None) =>
                ~Invoked /\ seen_in_b' = [seen_in_b EXCEPT ![f] = clock]
          /\ (fsB[f] /\ seen_in_b[f] # None) =>
                /\ Invoked <=> clock - seen_in_b[f] >= ARCHIVE_DELAY
                /\ seen_in_b' = seen_in_b ]_vars

\* archival invoked at exactly the threshold
C4_Witness ==
    /\ pc = "copy"
    /\ fsB[cur]
    /\ clock - seen_in_b[cur] = ARCHIVE_DELAY

C6_OneRecordPerArchival ==
    [][ ArchivedStep =>
          /\ Len(pliki') = Len(pliki) + 1
          /\ SubSeq(pliki', 1, Len(pliki)) = pliki
          /\ NewRow.nazwa = cur
          /\ NewRow.czas_archiwizacji # None
          /\ (NewRow.czas_cyklu_ab = NoCycle) <=> (processed = 0) ]_vars

C8_ReportIdempotent ==
    [][ pc = "D" =>
          \A r \in ReportNames :
             (scanned[r] # None /\ scanned[r] = fsD[r])
                => \A i \in 1..Len(updates') :
                      updates'[i].iso_name # iso_name(r) ]_vars

\* the report of j1 was applied by an earlier cycle, and the scan of this
\* cycle (no step has ever raised) has passed over it
C8_Witness ==
    /\ pc = "sleep"
    /\ ticks >= 2
    /\ errors = 0
    /\ updates = << >>
    /\ d_cache[R1] = fsD[R1]
    /\ \E i \in 1..Len(pliki) :
          pliki[i].material = ReportContent(fsD[R1]).material

(* C9: when the store update of one collected entry raises, the updates of *)
(* all other entries collected by the same scan are still applied.         *)
C9_BatchIndependent ==
    (pc = "sleep" /\ upd_raised_at # 0)
        => upd_applied = (1..Len(updates)) \ {upd_raised_at}

(* C10: the steps of a cycle are isolated from each other: however the     *)
(* intake scan ends, the machine-stage scan runs next, and however that    *)
(* one ends, the report scan runs next.                                    *)
C10_StepsIsolated ==
    [][ /\ (pc = "A" /\ pc' # "A") => pc' = "B"
        /\ (pc \in {"B", "Bscan"} \cup ArchivePcs
              /\ pc' \notin {"B", "Bscan"} \cup ArchivePcs) => pc' = "D"
      ]_vars

(* C11: an exception raised by a step of a cycle does not end the loop:    *)
(* the handler counts it and the loop goes to its sleep, from the sleep to *)
(* the test of the stop signal, and from there into a further cycle unless *)
(* the signal is set; the loop ends only with the signal set.              *)
C11_LoopSurvives ==
    [][ /\ (pc \in {"A", "Dapply"} /\ errors' = errors + 1) => pc' = "sleep"
        /\ (pc = "sleep" /\ pc' # pc) => pc' = "top"
        /\ (pc = "top" /\ pc' # pc) =>
              pc' = IF stop_event THEN "stopped" ELSE "A"
        /\ pc' = "stopped" => stop_event' ]_vars

\* a cycle has started after a cycle in which a step raised
C11_Witness ==
    /\ pc = "A"
    /\ ticks >= 2
    /\ errors > 0
    /\ ~stop_event

(* C12: a failed archival attempt leaves the file tracked with its first   *)
(* sighting, every later examination that finds it in folder B attempts    *)
(* the archival again, and every attempt finds the intake original in      *)
(* place, so that an attempt in which no operation fails any more archives *)
(* the file and stores its row.                                            *)
C12_RetryUntilArchived ==
    [][ /\ pc = "except" =>
              /\ InWaiting(waiting', cur)
              /\ seen_in_b'[cur] = seen_in_b[cur]
        /\ (ExaminedStep /\ Head(b_todo) \in thrown /\ fsB[Head(b_todo)])
              => Invoked
        /\ pc' = "copy" => IsRegular(fsA'[cur']) ]_vars

(* C13 as stated: an entry leaves the tracked set by a successful archival *)
(* only, and once an archival attempt of a file has raised, no later cycle *)
(* attempts the archival of that file again.                               *)
C13_AbandonedAfterThrow ==
    [][ /\ \A f \in IntakeNames :
              (InWaiting(waiting, f) /\ ~InWaiting(waiting', f))
                 => (ArchivedStep /\ cur = f)
        /\ ExaminedStep => (Head(b_todo) \in thrown => ~Invoked) ]_vars

(* C13 amended: an entry leaves the tracked set by a successful archival   *)
(* only; an archival attempt that has raised leaves the entry and its      *)
(* first sighting in place, and every later examination that finds the     *)
(* file in folder B attempts the archival again.                           *)
C13_RetainedAfterThrow ==
    [][ /\ \A f \in IntakeNames :
              (InWaiting(waiting, f) /\ ~InWaiting(waiting', f))
                 => (ArchivedStep /\ cur = f)
        /\ pc = "except" =>
              /\ WaitingEntry(waiting', cur) = WaitingEntry(waiting, cur)
              /\ InWaiting(waiting', cur)
              /\ seen_in_b'[cur] = seen_in_b[cur]
        /\ ExaminedStep =>
              LET f == Head(b_todo) IN
              f \in thrown => (Invoked <=> fsB[f]) ]_vars

\* the second attempt for a file whose first attempt has raised
C13_Witness ==
    /\ pc = "copy"
    /\ cur \in thrown
    /\ errors = 1

\* the rows of the table with the name n
Matching(rows, n) == { i \in 1..Len(rows) : rows[i].nazwa = n }

\* the step is a call of update_cnc_data that returns
UpdateReturns == db_ret'.op = "update" /\ ~db_ret'.raised

(* C14: no call of insert, update_cnc_data, search or get_by_name removes  *)
(* a row or changes the name, the paths, the timestamps (the archival time *)
(* among them) or the cycle duration of a row; update_cnc_data adds no row *)
(* and the two queries leave the table as it is.                           *)
C14_RecordsKept ==
    [][ /\ Len(pliki') >= Len(pliki)
        /\ \A i \in 1..Len(pliki) :
              /\ pliki'[i].czas_archiwizacji = pliki[i].czas_archiwizacji
              /\ pliki'[i].czas_archiwizacji # None
              /\ pliki'[i].nazwa = pliki[i].nazwa
              /\ pliki'[i].sciezka_a = pliki[i].sciezka_a
              /\ pliki'[i].sciezka_b = pliki[i].sciezka_b
              /\ pliki'[i].sciezka_c = pliki[i].sciezka_c
              /\ pliki'[i].czas_wrzucenia = pliki[i].czas_wrzucenia
              /\ pliki'[i].czas_pobrania = pliki[i].czas_pobrania
              /\ pliki'[i].czas_cyklu_ab = pliki[i].czas_cyklu_ab
        /\ db_ret'.op = "update" => Len(pliki') = Len(pliki)
        /\ db_ret'.op \in {"search", "get_by_name"} => pliki' = pliki
      ]_vars

\* update_cnc_data has changed the metadata of a stored row
C14_Witness ==
    /\ db_ret.op = "update"
    /\ ~db_ret.raised
    /\ db_ret.value
    /\ \E i \in 1..Len(pliki) :
          /\ pliki[i].nazwa = db_ret.arg
          /\ pliki[i].material # Brak
          /\ pliki[i].czas_archiwizacji = i

(* C15: a call of update_cnc_data raises only when the database fails;     *)
(* otherwise it returns TRUE if and only if some row has exactly the name  *)
(* given, and with no such row it returns FALSE and the table is as it was *)
(* before the call.                                                        *)
C15_UpdateReturn ==
    [][ db_ret'.op = "update" =>
          /\ db_ret'.raised <=> db_ret'.locked
          /\ ~db_ret'.raised =>
                (db_ret'.value <=> Matching(pliki, db_ret'.arg) # {})
          /\ Matching(pliki, db_ret'.arg) = {} => pliki' = pliki ]_vars

\* the report of j2.ISO has arrived and no row has the name derived from
\* it, though a row of j2.ISO exists
C15_Witness ==
    /\ db_ret.op = "update"
    /\ ~db_ret.raised
    /\ ~db_ret.value
    /\ \E i \in 1..Len(pliki) :
          Lower(pliki[i].nazwa.ext) = db_ret.arg.ext
             /\ pliki[i].nazwa.stem = db_ret.arg.stem

(* C16: update_cnc_data changes no row with another name, and of the rows  *)
(* with the name it changes the most recently archived one only, leaving   *)
(* the earlier rows of that name as they were.                             *)
C16_UpdatesMostRecent ==
    [][ UpdateReturns =>
          LET hits == Matching(pliki, db_ret'.arg)
              latest == { i \in hits :
                            \A j \in hits : pliki[j].czas_archiwizacji
                                              <= pliki[i].czas_archiwizacji }
          IN  \A i \in 1..Len(pliki) :
                 i \notin latest => pliki'[i] = pliki[i] ]_vars

\* the positions of the polling thread inside a cycle
CyclePcs == {"A", "B", "Bscan", "D", "Dapply"} \cup ArchivePcs

(* C18: once stop() has set the signal no cycle is started; the cycle that *)
(* is in progress goes on through its steps to the sleep; the sleep ends   *)
(* at once, no time passing; the loop then leaves by the test at its top   *)
(* and the thread stays ended.                                             *)
C18_CooperativeStop ==
    [][ /\ stop_event => stop_event'
        /\ (stop_event /\ pc \notin CyclePcs) => pc' \notin CyclePcs
        /\ (pc \in CyclePcs /\ pc' # pc) => pc' \in CyclePcs \cup {"sleep"}
        /\ (stop_event /\ pc = "sleep" /\ pc' # pc) =>
              (pc' = "top" /\ clock' = clock)
        /\ (stop_event /\ pc = "top" /\ pc' # pc) => pc' = "stopped"
        /\ pc = "stopped" => pc' = "stopped" ]_vars

\* the loop has ended after its first cycle, which applied the update of a
\* report: the signal was set before the sleep of that cycle was over, and
\* the sleep took no time
C18_Witness ==
    /\ pc = "stopped"
    /\ ticks = 1
    /\ clock = 0
    /\ \E i \in 1..Len(pliki) : pliki[i].material # Brak

\* the threads that are inside a cycle
InCycle ==
    { i \in 1..Len(threads) : threads[i].pc \in CyclePcs }
       \cup (IF pc \in CyclePcs THEN {0} ELSE {})

(* C17: whatever calls of start() and stop() are made, the steps of a      *)
(* cycle run in the order A, B, D and at no moment is more than one thread *)
(* of the engine inside a cycle.                                           *)
C17_TicksSequential ==
    [][ /\ (pc = "A" /\ pc' # pc) => pc' \in {"B", "sleep"}
        /\ (pc \in {"B", "Bscan"} /\ pc' # pc) => pc' \in {"Bscan", "D"}
        /\ (pc = "D" /\ pc' # pc) => pc' = "sleep"
        /\ Cardinality(InCycle') <= 1 ]_vars

(* C19: the counts a call of get_stats returns are those of one state of   *)
(* the engine, outside the cleanup of an archival; in every such state a   *)
(* file seen in B is a tracked file, so the machine-stage count returned   *)
(* is never greater than the in-flight count returned.                     *)
C19_SnapshotConsistent ==
    gs.pc = "done" => gs.in_b_count <= gs.waiting_count

\* the candidate line of a text that has one line after an optional header
\* which is not itself a candidate
CandidateLine(text) == StrippedLines(text)[Len(StrippedLines(text))]

(* C20: for a candidate line that contains a hyphen, the material returned *)
(* is the part left of the first hyphen, trimmed and cut to 50 characters, *)
(* and the thickness returned is the part right of the first hyphen,       *)
(* trimmed and cut to 20 characters, or "Brak" when that part is empty.    *)
C20_SplitFirstHyphen ==
    (pm.called /\ StrippedLines(pm.text) # << >>
        /\ Contains(CandidateLine(pm.text), "-")) =>
       LET line == CandidateLine(pm.text)
           k == CHOOSE i \in 1..Len(line) :
                   line[i] = "-" /\ \A j \in 1..(i - 1) : line[j] # "-"
           left == strip(SubSeq(line, 1, k - 1))
           right == strip(SubSeq(line, k + 1, Len(line)))
       IN  /\ pm.ret[1] = Cut(left, 50)
           /\ pm.ret[2] = IF right = << >> THEN BrakText ELSE Cut(right, 20)

(* C28: the stop signal, once set, stays set, and a thread that start()    *)
(* creates while it is set leaves _run without starting a cycle.           *)
C28_NoRestart ==
    [][ /\ stop_event => stop_event'
        /\ \A i \in 1..Len(threads') :
              threads'[i].late =>
                 (threads'[i].cycles = 0 /\ threads'[i].pc \in {"top", "stopped"})
      ]_vars

\* a thread created after stop() has left its loop
C28_Witness ==
    \E i \in 1..Len(threads) : threads[i].late /\ threads[i].pc = "stopped"

(* C22: the steps of an archival come in the order copy to the temp file,  *)
(* size check and rename to the final path, check of the final path and    *)
(* removal of the intake original, insert; a row is inserted only by an    *)
(* attempt that has the archive copy in place, of the size of the          *)
(* original, and the original removed; the entry of a file and its         *)
(* sighting in B are removed only by the step that inserts its row, and    *)
(* both by that step.                                                      *)
C22_InsertAfterTransition ==
    [][ /\ (pc' = "rename" /\ pc' # pc) => pc = "copy"
        /\ (pc' = "remove" /\ pc' # pc) =>
              /\ pc = "rename"
              /\ fsTmp[cur] = fsA[cur]
              /\ fsC'[cur] = fsA[cur]
        /\ (pc' = "persist" /\ pc' # pc) =>
              /\ pc = "remove"
              /\ IsRegular(fsC[cur])
              /\ fsA'[cur] = NoFile
        /\ Len(pliki') # Len(pliki) =>
              /\ pc = "persist"
              /\ Len(pliki') = Len(pliki) + 1
              /\ NewRow.nazwa = cur
              /\ fsC[cur] = attempt0.src
              /\ IsRegular(fsC[cur])
              /\ fsA[cur] = NoFile
              /\ fsTmp[cur] = NoFile
        /\ \A f \in IntakeNames :
              ((InWaiting(waiting, f) /\ ~InWaiting(waiting', f))
                  \/ (seen_in_b[f] # None /\ seen_in_b'[f] = None)) =>
                 /\ Len(pliki') = Len(pliki) + 1
                 /\ NewRow.nazwa = f
                 /\ ~InWaiting(waiting', f)
                 /\ seen_in_b'[f] = None ]_vars

\* a row has been inserted for a file whose copy was made from an original
\* of two bytes
C22_Witness ==
    /\ pc = "Bscan"
    /\ \E i \in 1..Len(pliki) :
          /\ fsC[pliki[i].nazwa] = 2
          /\ fsA[pliki[i].nazwa] = NoFile
          /\ ~InWaiting(waiting, pliki[i].nazwa)

(* C23: at every tick boundary, every file that has its copy in the        *)
(* archive folder and that the engine has removed from the intake folder   *)
(* has a row in the table.                                                 *)
C23_ArchivedHasRecord ==
    pc \in {"top", "sleep"} =>
        \A f \in IntakeNames :
            (fsA[f] = NoFile /\ IsRegular(fsC[f])) =>
                \E i \in 1..Len(pliki) : pliki[i].nazwa = f

\* at a tick boundary every file with a sighting in B is tracked
SeenTracked ==
    pc \in {"top", "sleep"} =>
        /\ \A f \in IntakeNames : seen_in_b[f] # None => InWaiting(waiting, f)
        /\ SeenCount(seen_in_b) <= Len(waiting)

(* C24: at every tick boundary every file with a sighting in B is tracked, *)
(* and the machine-stage count that get_stats reports is never greater     *)
(* than the in-flight count it reports.                                    *)
C24_SeenWithinWaiting ==
    /\ SeenTracked
    /\ gs.pc = "done" => gs.in_b_count <= gs.waiting_count

(* C26: every row has its three timestamps set and in order: time of       *)
(* tracking <= time of the first sighting in B <= time of archival, and    *)
(* the archival is at least ARCHIVE_DELAY seconds after the first sighting.*)
C26_TimestampsOrdered ==
    \A i \in 1..Len(pliki) :
        /\ pliki[i].czas_wrzucenia # None
        /\ pliki[i].czas_pobrania # None
        /\ pliki[i].czas_archiwizacji # None
        /\ pliki[i].czas_wrzucenia <= pliki[i].czas_pobrania
        /\ pliki[i].czas_pobrania <= pliki[i].czas_archiwizacji
        /\ pliki[i].czas_archiwizacji - pliki[i].czas_pobrania >= ARCHIVE_DELAY

\* a row of a file that came to B after the cycle that tracked it
C26_Witness ==
    \E i \in 1..Len(pliki) :
        pliki[i].czas_wrzucenia < pliki[i].czas_pobrania

(* C27: the first sighting of a tracked file is changed by nothing but the *)
(* archival that removes it; an examination that does not find the file in *)
(* folder B attempts no archival, whatever the time since the sighting,    *)
(* and an examination that finds it there attempts the archival as soon as *)
(* ARCHIVE_DELAY seconds have passed since that first sighting.            *)
C27_TimerKept ==
    [][ /\ \A f \in IntakeNames :
              (seen_in_b[f] # None /\ seen_in_b'[f] # seen_in_b[f]) =>
                 (ArchivedStep /\ cur = f /\ seen_in_b'[f] = None)
        /\ ExaminedStep =>
              LET f == Head(b_todo) IN
              /\ ~fsB[f] => ~Invoked
              /\ (fsB[f] /\ seen_in_b[f] # None
                     /\ clock - seen_in_b[f] >= ARCHIVE_DELAY) => Invoked ]_vars

\* the first archival attempt of a file, two cycles of ARCHIVE_DELAY seconds
\* after its first sighting: the cycle in between did not find it in B
C27_Witness ==
    /\ pc = "copy"
    /\ fsB[cur]
    /\ cur \notin thrown
    /\ clock - seen_in_b[cur] = 2 * ARCHIVE_DELAY

\* every row of the name has the three values FileRecord gives by default
Sentinel(nazwa) ==
    \A i \in 1..Len(pliki) :
        pliki[i].nazwa = nazwa =>
           /\ pliki[i].material = Brak
           /\ pliki[i].grubosc = Brak
           /\ pliki[i].czas_realny_cnc = Brak

\* an update read from the report is waiting in the batch loop
Pending(r) ==
    /\ pc = "Dapply"
    /\ \E i \in upd_idx..Len(updates) : updates[i].iso_name = iso_name(r)

\* the cache holds the present modification time of the report, nothing of
\* it is left to apply, and no row of its file has its values
Missed(r) ==
    /\ fsD[r] # NoFile
    /\ d_cache[r] = fsD[r]
    /\ ~Pending(r)
    /\ Sentinel(iso_name(r))

(* C25: the cache holds the modification time the last scan has read of a  *)
(* report, whether or not the report was then matched, read and applied;   *)
(* and once the scan of a report has left the rows of its file (if any)    *)
(* with their default values, they keep them for as long as the            *)
(* modification time of the report stays the same, rows inserted           *)
(* afterwards included.                                                    *)
C25_MissedUpdateNotRetried ==
    [][ \A r \in ReportNames :
          /\ d_cache'[r] = scanned'[r]
          /\ (Missed(r) /\ fsD'[r] = fsD[r]) => Missed(r)' ]_vars

\* a cycle has ended after the one that inserted the row of j1; the report
\* of j1 is in the cache and the row has its default values
C25_Witness ==
    /\ pc = "sleep"
    /\ Missed(R1)
    /\ \E i \in 1..Len(pliki) :
          /\ pliki[i].nazwa = iso_name(R1)
          /\ pliki[i].czas_archiwizacji < clock

\* the rules that match somewhere in the text
RulesMatching(text) ==
    { k \in 1..5 : \E i \in 1..Len(text) : RuleAt(k, text, i).found }

\* group(1) of the leftmost match of rule k
FirstCapture(k, text) ==
    LET hits == { i \in 1..Len(text) : RuleAt(k, text, i).found }
    IN  RuleAt(k, text, CHOOSE i \in hits : \A j \in hits : i <= j).group

\* the labels of rules 1 to 3
Labelled == { "Time", "cycle", "semi", "hash", "cut", "run" }

\* the time a labelled line gives: all of it, or its HH:MM:SS part after
\* CUT TIME and RUN TIME, with a period for the decimal comma
LabelledValue(l) ==
    replace(IF l.label \in { "cut", "run" }
            THEN SubSeq(l.time, 1, Clock(l.time, 1, TRUE) - 1)
            ELSE l.time, ",", ".")

\* a line that is nothing but a time with two-digit hours
Trailing(l) == l.label = "plain" /\ Clock(l.time, 1, FALSE) # 0

(* C21: the value returned is "Brak" when no rule matches anywhere in the   *)
(* text, and otherwise the first capture of the lowest-numbered rule that  *)
(* matches, with a period for a decimal comma; so a text with a labelled   *)
(* time and a different time alone at the end of a line gives the value of *)
(* a labelled line, wherever the two lines are.                            *)
C21_FirstRuleWins ==
    ct.called =>
       /\ IF RulesMatching(ct.text) = {} THEN ct.ret = BrakText
          ELSE LET k == CHOOSE m \in RulesMatching(ct.text) :
                           \A o \in RulesMatching(ct.text) : m <= o
               IN  ct.ret = replace(FirstCapture(k, ct.text), ",", ".")
       /\ LET ls == Range(ct.lines)
              labelled == { l \in ls : l.label \in Labelled }
          IN  (\E l \in labelled, u \in ls : Trailing(u) /\ u.time # l.time)
                 => ct.ret \in { LabelledValue(l) : l \in labelled }

\* a time alone on the first line, a labelled time with a decimal comma on
\* the second, and the labelled one returned with a period
C21_Witness ==
    /\ ct.called
    /\ Len(ct.lines) = 2
    /\ Trailing(ct.lines[1])
    /\ ct.lines[2].label = "Time"
    /\ ct.lines[2].time # ct.lines[1].time
    /\ Contains(ct.lines[2].time, ",")
    /\ ct.ret = LabelledValue(ct.lines[2])
    /\ Contains(ct.ret, ".")

====
